---- MODULE Spec2Model ----
(***************************************************************************)
(* A model of frt_analyzer.py, the Streamlit script that analyses an IIS   *)
(* Failed Request Tracing XML file.  One Streamlit session is modelled:    *)
(* every user interaction with a rendered widget re-executes the whole     *)
(* script from its first line in a fresh namespace, with only              *)
(* st.session_state carried over.  A script run is one action.             *)
(***************************************************************************)
EXTENDS Integers, Sequences, FiniteSets, TLC

\* The largest number of descendant elements of an uploaded document.
MaxElems == 3

-----------------------------------------------------------------------------
(* Python values.  A str that only ever meets == is a TLA+ string; a str   *)
(* that is parsed or suffix-tested is a sequence of one-character strings. *)
(* Optional values are wrapped so that None compares with every value.     *)

None == [isNone |-> TRUE, val |-> ""]
Str(s) == [isNone |-> FALSE, val |-> s]
NoneChars == [isNone |-> TRUE, val |-> << >>]
Chars(cs) == [isNone |-> FALSE, val |-> cs]

TraceNS == "http://schemas.microsoft.com/win/2004/08/events/trace"
QName(local) == "{" \o TraceNS \o "}" \o local

\* The characters of "failedRequest" and of the trace namespace in Clark
\* notation, "{http://schemas.microsoft.com/win/2004/08/events/trace}".
FailedRequestChars ==
    <<"f", "a", "i", "l", "e", "d", "R", "e", "q", "u", "e", "s", "t">>
TraceNSChars ==
    <<"{", "h", "t", "t", "p", ":", "/", "/", "s", "c", "h", "e", "m", "a", "s",
      ".", "m", "i", "c", "r", "o", "s", "o", "f", "t", ".", "c", "o", "m", "/",
      "w", "i", "n", "/", "2", "0", "0", "4", "/", "0", "8", "/", "e", "v", "e",
      "n", "t", "s", "/", "t", "r", "a", "c", "e", "}">>

\* str.endswith
EndsWith(s, suffix) ==
    /\ Len(s) >= Len(suffix)
    /\ SubSeq(s, Len(s) - Len(suffix) + 1, Len(s)) = suffix

-----------------------------------------------------------------------------
(* float(str) followed by int(): Python's float grammar without            *)
(* underscores: surrounding whitespace is stripped, then an optional sign, *)
(* then inf, infinity or nan in any case, or a decimal number with an      *)
(* optional fraction and an optional exponent.                             *)

Digits == <<"0", "1", "2", "3", "4", "5", "6", "7", "8", "9">>
IsDigit(c) == \E d \in 1..10 : Digits[d] = c
DigitVal(c) == (CHOOSE d \in 1..10 : Digits[d] = c) - 1
IsSpace(c) == c \in {" ", "\t", "\n", "\r"}

LowerChar(c) ==
    CASE c = "I" -> "i" [] c = "N" -> "n" [] c = "F" -> "f" [] c = "T" -> "t"
      [] c = "Y" -> "y" [] c = "A" -> "a" [] c = "E" -> "e" [] OTHER -> c
Lower(s) == [k \in 1..Len(s) |-> LowerChar(s[k])]

RECURSIVE LStrip(_)
LStrip(s) == IF s # << >> /\ IsSpace(Head(s)) THEN LStrip(Tail(s)) ELSE s
RECURSIVE RStrip(_)
RStrip(s) ==
    IF s # << >> /\ IsSpace(s[Len(s)]) THEN RStrip(SubSeq(s, 1, Len(s) - 1)) ELSE s
Strip(s) == RStrip(LStrip(s))

\* The length of the longest prefix of s made of digits.
RECURSIVE DigitRun(_)
DigitRun(s) == IF s # << >> /\ IsDigit(Head(s)) THEN 1 + DigitRun(Tail(s)) ELSE 0

RECURSIVE DigitsToInt(_)
DigitsToInt(ds) ==
    IF ds = << >> THEN 0
    ELSE 10 * DigitsToInt(SubSeq(ds, 1, Len(ds) - 1)) + DigitVal(ds[Len(ds)])

RECURSIVE Pow10(_)
Pow10(n) == IF n = 0 THEN 1 ELSE 10 * Pow10(n - 1)

Drop(s, n) == SubSeq(s, n + 1, Len(s))

FloatError(neg) == [kind |-> "error", neg |-> neg, trunc |-> 0]

\* The value mant * 10^scale, truncated to its integer part.
Scaled(neg, mant, scale) ==
    [kind |-> "finite", neg |-> neg,
     trunc |-> IF scale >= 0 THEN mant * Pow10(scale)
               ELSE mant \div Pow10(0 - scale)]

\* The literal is complete: mantDigits are the digits before and after the
\* point, nFrac of them after it; rest is what follows the number.
FloatFinish(neg, mantDigits, nFrac, expNeg, expDigits, rest) ==
    IF mantDigits = << >> \/ rest # << >> THEN FloatError(neg)
    ELSE Scaled(neg, DigitsToInt(mantDigits),
                (IF expNeg THEN 0 - DigitsToInt(expDigits)
                 ELSE DigitsToInt(expDigits)) - nFrac)

FloatExpDigits(neg, mantDigits, nFrac, expNeg, expPart, nExp) ==
    IF nExp = 0 THEN FloatError(neg)
    ELSE FloatFinish(neg, mantDigits, nFrac, expNeg,
                     SubSeq(expPart, 1, nExp), Drop(expPart, nExp))

FloatExpSign(neg, mantDigits, nFrac, expNeg, expPart) ==
    FloatExpDigits(neg, mantDigits, nFrac, expNeg, expPart, DigitRun(expPart))

FloatExponent(neg, mantDigits, nFrac, afterFrac) ==
    IF afterFrac # << >> /\ LowerChar(Head(afterFrac)) = "e"
    THEN FloatExpSign(neg, mantDigits, nFrac,
                      Len(afterFrac) > 1 /\ afterFrac[2] = "-",
                      IF Len(afterFrac) > 1 /\ afterFrac[2] \in {"+", "-"}
                      THEN Drop(afterFrac, 2) ELSE Drop(afterFrac, 1))
    ELSE FloatFinish(neg, mantDigits, nFrac, FALSE, << >>, afterFrac)

FloatFracDigits(neg, intDigits, afterDot, nFrac) ==
    FloatExponent(neg, intDigits \o SubSeq(afterDot, 1, nFrac), nFrac,
                  Drop(afterDot, nFrac))

FloatFraction(neg, intDigits, afterDot) ==
    FloatFracDigits(neg, intDigits, afterDot, DigitRun(afterDot))

FloatIntDigits(neg, s, nInt) ==
    FloatFraction(neg, SubSeq(s, 1, nInt),
                  IF Len(s) > nInt /\ s[nInt + 1] = "." THEN Drop(s, nInt + 1)
                  ELSE Drop(s, nInt))

\* The unsigned body of a float literal.
FloatBody(neg, s) ==
    IF Lower(s) \in {<<"i", "n", "f">>, <<"i", "n", "f", "i", "n", "i", "t", "y">>}
    THEN [kind |-> "inf", neg |-> neg, trunc |-> 0]
    ELSE IF Lower(s) = <<"n", "a", "n">>
    THEN [kind |-> "nan", neg |-> neg, trunc |-> 0]
    ELSE FloatIntDigits(neg, s, DigitRun(s))

FloatSigned(t) ==
    FloatBody(t # << >> /\ Head(t) = "-",
              IF t # << >> /\ Head(t) \in {"+", "-"} THEN Tail(t) ELSE t)

\* float(s): [kind, neg, trunc], kind one of "finite", "inf", "nan" and
\* "error" (float raises ValueError); trunc the integer part of the
\* magnitude of a finite value.
PyFloat(s) == FloatSigned(Strip(s))

\* The exception int(f) raises for the float f, or the one float() raised, or
\* "none".
IntFloatRaises(f) ==
    CASE f.kind = "error" -> "ValueError"       \* float() rejects the string
      [] f.kind = "nan" -> "ValueError"         \* int(nan)
      [] f.kind = "inf" -> "OverflowError"      \* int(inf)
      [] OTHER -> "none"

\* int(f) when nothing is raised: truncation toward zero.
IntFloat(f) == IF f.neg THEN 0 - f.trunc ELSE f.trunc

-----------------------------------------------------------------------------
(* XML documents as xml.etree.ElementTree sees them.  A document is its    *)
(* root tag, the root's statusCode attribute and the root's descendant     *)
(* elements in document order; a descendant carries its tag in Clark       *)
(* notation, its time and reason attributes and its direct children.       *)

Child(tag, text, len) == [tag |-> tag, text |-> text, len |-> len]
Elem(tag, time, reason, children) ==
    [tag |-> tag, time |-> time, reason |-> reason, children |-> children]
Doc(wellFormed, root, statusCode, elems) ==
    [wellFormed |-> wellFormed, root |-> root, statusCode |-> statusCode,
     elems |-> elems]

\* dict.get / Element.get with a default
Get(attr, default) == IF attr.isNone THEN default ELSE attr.val

\* Element.find(path): the first direct child with that tag, or None.
NotFound == [found |-> FALSE, el |-> Child("", None, 0)]
Find(e, tag) ==
    LET hits == {k \in DOMAIN e.children : e.children[k].tag = tag}
    IN  IF hits = {} THEN NotFound
        ELSE [found |-> TRUE,
              el |-> e.children[CHOOSE k \in hits : \A j \in hits : k <= j]]

\* ns of line 124: the prefix map handed to Element.find.
ns == [iis |-> TraceNS]

\* Element.find(path, namespaces) for a path without a prefix: ElementPath
\* qualifies the name only with the map's default namespace (the key "").
FindNS(e, path, namespaces) ==
    Find(e, IF "" \in DOMAIN namespaces
            THEN "{" \o namespaces[""] \o "}" \o path
            ELSE path)

\* `a or b` on the results of find: None is false, and so is an Element
\* without children (Element.__bool__ is len(self) != 0).
ElementOr(a, b) == IF a.found /\ a.el.len # 0 THEN a ELSE b

\* The elements that root.iterfind(".//" + tag) and root.iter(tag) yield: the
\* descendants with that tag, in document order (the root's own tag is
\* failedRequest here, so root.iter never yields the root).
IterFind(doc, tag) == SelectSeq(doc.elems, LAMBDA e : e.tag = tag)

\* `gen or alt`: iterfind returns a generator object, and a generator object
\* is true whether or not it yields anything, so alt is never evaluated.
GeneratorOr(gen, alt) == gen

\* `lst or alt` on lists: an empty list is false.
ListOr(lst, alt) == IF lst # << >> THEN lst ELSE alt

\* RootAccepted with the suffix test missing its brace: endswith("failedRequest").
RootAccepted_NoBrace(tag) == EndsWith(tag, FailedRequestChars)

\* line 101: the negation of the test that reports the invalid root
RootAccepted(tag) ==
    ~ (tag # FailedRequestChars
       /\ ~ EndsWith(tag, <<"}">> \o FailedRequestChars))

\* lines 116-120: the verb
DataNodes(doc) == GeneratorOr(IterFind(doc, QName("data")), IterFind(doc, "data"))

RECURSIVE VerbLoop(_)
VerbLoop(nodes) ==
    IF nodes = << >> THEN Str("N/A")
    ELSE LET data == Head(nodes)
             nameEl == Find(data, "name")
             valueEl == Find(data, "value")
         IN  IF nameEl.found /\ nameEl.el.text = Str("VERB")
             THEN (IF valueEl.found THEN valueEl.el.text ELSE Str("N/A"))
             ELSE VerbLoop(Tail(nodes))

ExtractVerb(doc) == VerbLoop(DataNodes(doc))

\* RootCause with the two messages exchanged.
RootCause_Swapped(status_code) ==
    IF status_code = "404" THEN "Server Error (Review modules/logs)"
    ELSE IF status_code = "500" THEN "File Not Found (Check physical path)"
    ELSE "Unknown"

\* lines 154-159: root cause detection
RootCause(status_code) ==
    IF status_code = "404" THEN "File Not Found (Check physical path)"
    ELSE IF status_code = "500" THEN "Server Error (Review modules/logs)"
    ELSE "Unknown"

\* EventNodes as the union of both forms: list(...) + list(...).
EventNodes_Union(doc) == IterFind(doc, QName("event")) \o IterFind(doc, "event")

\* line 125: the matched event elements
EventNodes(doc) == ListOr(IterFind(doc, QName("event")), IterFind(doc, "event"))

\* lines 136-139 for a time string float() was applied to, giving f
TimeMsOf(f, i) ==
    CASE IntFloatRaises(f) = "none" ->
           [raised |-> "none", value |-> IntFloat(f), warned |-> FALSE]
      [] IntFloatRaises(f) \in {"ValueError", "TypeError"} ->
           [raised |-> "none", value |-> i * 10, warned |-> TRUE]
      [] OTHER ->
           [raised |-> IntFloatRaises(f), value |-> 0, warned |-> FALSE]

\* TimeMs with the fallback for an absent or empty time counted from one
\* position too early: (i - 1) * 10.
TimeMs_EarlyFallback(time, i) ==
    IF time.isNone \/ time.val = << >>
    THEN [raised |-> "none", value |-> (i - 1) * 10, warned |-> FALSE]
    ELSE TimeMsOf(PyFloat(time.val), i)

\* lines 134-139: [raised, value, warned] for the event at 0-based position i
TimeMs(time, i) ==
    IF time.isNone \/ time.val = << >>
    THEN [raised |-> "none", value |-> i * 10, warned |-> FALSE]
    ELSE TimeMsOf(PyFloat(time.val), i)

\* lines 131-132
EventName(event) ==
    LET event_name == ElementOr(FindNS(event, "name", ns), Find(event, "name"))
    IN  IF event_name.found THEN event_name.el.text ELSE Str("Unknown")

\* lines 140-141
Provider(event) ==
    LET provider == ElementOr(FindNS(event, "providerName", ns),
                              Find(event, "providerName"))
    IN  IF provider.found THEN provider.el.text ELSE Str("")

\* lines 142-147: the row appended for the event at position i; idx is the
\* row's DataFrame index label, which sort_values keeps.
EventRow(event, i, time_ms) ==
    [idx |-> i,
     timeMs |-> time_ms,
     eventName |-> EventName(event),
     provider |-> Provider(event),
     reason |-> Get(event.reason, "")]

\* lines 130-147: the loop.  It stops at the first event whose time raises
\* an exception the inner handler does not catch; `events` then holds the
\* rows appended so far.
RECURSIVE EventLoop(_, _, _, _)
EventStep(nodes, i, events, warnings, t) ==
    IF t.raised # "none"
    THEN [raised |-> t.raised, events |-> events, warnings |-> warnings]
    ELSE EventLoop(nodes, i + 1,
                   Append(events, EventRow(nodes[i + 1], i, t.value)),
                   IF t.warned THEN warnings \cup {i} ELSE warnings)
EventLoop(nodes, i, events, warnings) ==
    IF i = Len(nodes)
    THEN [raised |-> "none", events |-> events, warnings |-> warnings]
    ELSE EventStep(nodes, i, events, warnings, TimeMs(nodes[i + 1].time, i))

ExtractEvents(event_nodes) == EventLoop(event_nodes, 0, << >>, {})

\* lines 150-152: pd.DataFrame(events).sort_values("Time (ms)").  The default
\* kind is "quicksort", which pandas documents as not stable: every ascending
\* arrangement of the rows is a possible result.  An empty frame is not sorted.
RowOrders(n) ==
    {p \in [1..n -> 1..n] : \A a, b \in 1..n : a # b => p[a] # p[b]}
SortValues(events) ==
    {[k \in 1..Len(events) |-> events[p[k]]] :
        p \in {q \in RowOrders(Len(events)) :
                 \A a, b \in 1..Len(events) :
                    a < b => events[q[a]].timeMs <= events[q[b]].timeMs}}

-----------------------------------------------------------------------------
(* One run of the script.  The result of a run is what the run leaves in   *)
(* the session and on the page.                                            *)

XslOption == "Use freb.xsl (HTML Report)"
ParseOption == "Parse Events Directly (Table View)"

NullDoc == Doc(FALSE, << >>, None, << >>)
Unassigned == [st |-> "unassigned", doc |-> NullDoc]
NoFile == [st |-> "none", doc |-> NullDoc]
File(doc) == [st |-> "file", doc |-> doc]

NoSummary ==
    [shown |-> FALSE, status_code |-> "", verb |-> None, root_cause |-> ""]

\* A run that has rendered nothing yet (line 37).
Blank(fs) ==
    [fullscreen |-> fs, rerun |-> FALSE, raised |-> "none",
     uploaded_xml |-> Unassigned, render_option |-> "unassigned",
     buttons |-> {}, reports |-> {}, html |-> FALSE,
     rootTagShown |-> NoneChars, extracted |-> FALSE, summary |-> NoSummary,
     event_nodes |-> << >>, events |-> << >>, warned |-> {},
     df |-> << >>, timelineShown |-> FALSE, csv |-> FALSE]

Report(r, what) == [r EXCEPT !.reports = @ \cup {what}]

\* lines 74-93: the style sheet branch.  "valid" is a style sheet the engine
\* compiles and applies; the engine itself is not modelled.
XslBranch(r, doc, xslState) ==
    IF ~ doc.wellFormed \/ xslState = "malformed"
    THEN {Report(r, "XML/XSL parsing error")}                     \* line 197
    ELSE LET shown == [r EXCEPT !.html = TRUE]
         IN  IF ~ r.fullscreen /\ IterFind(doc, QName("event")) = << >>
             THEN {Report(shown, "No <event> tags found")}
             ELSE {shown}

\* lines 149-195: the frame, the root cause and the display
Display(r, status_code, verb, df) ==
    IF r.fullscreen THEN [r EXCEPT !.df = df]
    ELSE [r EXCEPT !.df = df,
                   !.summary = [shown |-> TRUE,
                                status_code |-> status_code,
                                verb |-> verb,
                                root_cause |-> RootCause(status_code)],
                   !.timelineShown = df # << >>,
                   !.reports = IF df = << >> THEN @ \cup {"No events found"}
                               ELSE @,
                   !.csv = df # << >>]

\* lines 130-195, given what the loop over event_nodes did
AfterLoop(r, status_code, verb, event_nodes, loop) ==
    IF loop.raised # "none"
    THEN {[r EXCEPT !.extracted = TRUE, !.event_nodes = event_nodes,
                    !.events = loop.events, !.warned = loop.warnings,
                    !.reports = @ \cup {"Error processing file"}   \* line 200
                                  \cup {"Invalid time value" : w \in loop.warnings}]}
    ELSE {Display([r EXCEPT !.extracted = TRUE, !.event_nodes = event_nodes,
                            !.events = loop.events, !.warned = loop.warnings,
                            !.reports = @ \cup {"Invalid time value" :
                                                  w \in loop.warnings}],
                  status_code, verb, df) :
            df \in (IF loop.events = << >> THEN {<< >>}
                    ELSE SortValues(loop.events))}

AfterMatch(r, status_code, verb, event_nodes) ==
    AfterLoop(r, status_code, verb, event_nodes, ExtractEvents(event_nodes))

\* lines 105-195: extraction and display for an accepted root
ExtractBranch(r, doc) ==
    AfterMatch(r, Get(doc.statusCode, "N/A"), ExtractVerb(doc), EventNodes(doc))

\* lines 96-195: the direct parsing branch.  ET.parse raises
\* xml.etree.ElementTree.ParseError, which is not lxml's etree.ParseError of
\* line 197, so the handler of line 200 reports it.
ParseBranch(r, doc) ==
    IF ~ doc.wellFormed THEN {Report(r, "Error processing file")}
    ELSE IF ~ RootAccepted(doc.root)
    THEN {[Report(r, "Invalid FRT XML") EXCEPT !.rootTagShown = Chars(doc.root)]}
    ELSE ExtractBranch(r, doc)

\* lines 72-202
TryBlock(r, xslState) ==
    LET doc == r.uploaded_xml.doc
    IN  IF r.render_option = XslOption /\ xslState # "missing"
        THEN XslBranch(r, doc, xslState)
        ELSE IF r.render_option = ParseOption THEN ParseBranch(r, doc)
        ELSE {r}

\* lines 203-210
NoUploadBranch(r, pressed) ==
    IF r.fullscreen
    THEN LET shown == [Report(r, "Please upload an XML file")
                         EXCEPT !.buttons = @ \cup {"exit"}]
         IN  IF pressed = "exit"
             THEN [shown EXCEPT !.fullscreen = FALSE, !.rerun = TRUE]
             ELSE shown
    ELSE Report(r, "Upload an FRT XML file to get started")

\* The whole script, lines 1-213.  fs is st.session_state.fullscreen when the
\* run starts, file and radio the values the uploader and the radio return,
\* pressed the button whose click started the run ("none" otherwise), and
\* xslState what the run finds at the path freb.xsl.
RunScript(fs, file, radio, pressed, xslState) ==
    LET widgets ==                                             \* lines 43-51
            IF ~ fs
            THEN [Blank(fs) EXCEPT !.uploaded_xml = file,
                                   !.render_option = radio,
                                   !.buttons = {"enter"}]
            ELSE Blank(fs)
        loaded ==                                              \* lines 59-65
            IF xslState = "missing" THEN Report(widgets, "freb.xsl not found")
            ELSE widgets
    IN  IF ~ fs /\ pressed = "enter"                           \* lines 54-56
        THEN {[widgets EXCEPT !.fullscreen = TRUE, !.rerun = TRUE]}
        ELSE IF loaded.uploaded_xml.st = "unassigned"          \* line 71
        THEN {[loaded EXCEPT !.raised = "NameError"]}
        ELSE IF loaded.uploaded_xml.st = "file"
        THEN TryBlock(loaded, xslState)
        ELSE {NoUploadBranch(loaded, pressed)}

-----------------------------------------------------------------------------
(* The documents a user uploads in the model.                              *)

\* time attributes: absent, "", "10.5", "abc", "-5", "-0.5", "inf", "nan", "25"
TimeValues ==
    {NoneChars, Chars(<< >>), Chars(<<"1", "0", ".", "5">>),
     Chars(<<"a", "b", "c">>), Chars(<<"-", "5">>), Chars(<<"-", "0", ".", "5">>),
     Chars(<<"i", "n", "f">>), Chars(<<"n", "a", "n">>)}

\* event elements: bare ones with every time value, and both forms with
\* bare, qualified, repeated and absent name / providerName children.
EventElems ==
    {Elem("event", t, None, << >>) : t \in TimeValues}
    \cup
    {Elem(QName("event"), Chars(<<"2", "5">>), Str("r"),
          <<Child(QName("name"), Str("QN"), 0),
            Child(QName("providerName"), Str("QP"), 0)>>),
     Elem(QName("event"), NoneChars, None,
          <<Child("name", Str("B"), 0), Child("name", Str("C"), 1),
            Child("providerName", None, 0)>>),
     Elem("event", Chars(<<"2", "5">>), None,
          <<Child(QName("name"), Str("QN"), 0), Child("name", Str("B"), 1)>>)}

\* data elements: both forms, with bare and qualified name / value children
DataElems ==
    {Elem(QName("data"), NoneChars, None,
          <<Child("name", Str("VERB"), 0), Child("value", Str("GET"), 0)>>),
     Elem("data", NoneChars, None,
          <<Child("name", Str("VERB"), 0), Child("value", Str("POST"), 0)>>),
     Elem(QName("data"), NoneChars, None,
          <<Child(QName("name"), Str("VERB"), 0),
            Child(QName("value"), Str("PUT"), 0)>>),
     Elem(QName("data"), NoneChars, None,
          <<Child("name", Str("VERB"), 0)>>),
     Elem(QName("data"), NoneChars, None,
          <<Child("name", Str("URL"), 0), Child("value", Str("/x"), 0)>>)}

SeqsUpTo(S, n) == UNION {[1..k -> S] : k \in 0..n}

\* root tags: failedRequest, bare, in the trace namespace and in another
\* namespace, and tags that are not failedRequest
RootTags ==
    {FailedRequestChars,
     TraceNSChars \o FailedRequestChars,
     <<"{", "u", "}">> \o FailedRequestChars,
     <<"x">> \o FailedRequestChars,
     FailedRequestChars \o <<"s">>,
     <<"f", "a", "i", "l", "e", "d", "r", "e", "q", "u", "e", "s", "t">>,
     TraceNSChars \o <<"r", "o", "o", "t">>}

\* statusCode attributes: absent, or one of these strings
StatusCodes ==
    {None, Str("404"), Str("500"), Str(""), Str("abc"), Str("0404"),
     Str("500.0"), Str("404 "), Str("200")}

Malformed == Doc(FALSE, << >>, None, << >>)

\* The descendants of the modelled documents: events only, data only, or
\* one of each in either order.
ElemSeqs ==
    SeqsUpTo(EventElems, MaxElems) \cup SeqsUpTo(DataElems, MaxElems)
    \cup {<<d, e>> : d \in DataElems, e \in EventElems}
    \cup {<<e, d>> : d \in DataElems, e \in EventElems}

Docs ==
    {Malformed}
    \cup {Doc(TRUE, root, None, es) :
            root \in RootTags,
            es \in SeqsUpTo({Elem("event", NoneChars, None, << >>)}, 1)}
    \cup {Doc(TRUE, FailedRequestChars, sc, << >>) : sc \in StatusCodes}
    \cup {Doc(TRUE, FailedRequestChars, Str("404"), es) : es \in ElemSeqs}

\* What a run finds at the path freb.xsl.
XslStates == {"missing", "valid", "malformed"}

-----------------------------------------------------------------------------
VARIABLES
    fullscreen,      \* st.session_state.fullscreen
    xsl,             \* the file freb.xsl in the working directory
    rerun,           \* st.rerun() was called: the next run is already queued
    raised,          \* the uncaught exception that ended the last run, or "none"
    uploaded_xml,    \* the last run's uploaded_xml
    render_option,   \* the last run's render_option
    buttons,         \* the buttons the last run rendered
    reports,         \* the st.error / st.warning / st.info messages of the last run
    html,            \* the HTML report was rendered
    rootTagShown,    \* the tag written by line 103
    extracted,       \* the last run entered the extraction of lines 105-195
    summary,         \* the Request Summary metrics
    event_nodes,     \* the last run's event_nodes
    events,          \* the last run's events
    warned,          \* the positions whose time value line 138 warned about
    df,              \* the last run's df
    timelineShown,   \* st.dataframe(df) was rendered
    csv              \* the download button with the CSV was rendered

vars == <<fullscreen, xsl, rerun, raised, uploaded_xml, render_option, buttons,
          reports, html, rootTagShown, extracted, summary, event_nodes, events,
          warned, df, timelineShown, csv>>

\* The state a run ending with result r leaves.
Shows(r) ==
    /\ fullscreen = r.fullscreen
    /\ rerun = r.rerun
    /\ raised = r.raised
    /\ uploaded_xml = r.uploaded_xml
    /\ render_option = r.render_option
    /\ buttons = r.buttons
    /\ reports = r.reports
    /\ html = r.html
    /\ rootTagShown = r.rootTagShown
    /\ extracted = r.extracted
    /\ summary = r.summary
    /\ event_nodes = r.event_nodes
    /\ events = r.events
    /\ warned = r.warned
    /\ df = r.df
    /\ timelineShown = r.timelineShown
    /\ csv = r.csv

Becomes(r) ==
    /\ fullscreen' = r.fullscreen
    /\ rerun' = r.rerun
    /\ raised' = r.raised
    /\ uploaded_xml' = r.uploaded_xml
    /\ render_option' = r.render_option
    /\ buttons' = r.buttons
    /\ reports' = r.reports
    /\ html' = r.html
    /\ rootTagShown' = r.rootTagShown
    /\ extracted' = r.extracted
    /\ summary' = r.summary
    /\ event_nodes' = r.event_nodes
    /\ events' = r.events
    /\ warned' = r.warned
    /\ df' = r.df
    /\ timelineShown' = r.timelineShown
    /\ csv' = r.csv
    /\ UNCHANGED xsl

\* The uploader and the radio are on the page and the script is idle.
WidgetsRendered == ~ rerun /\ uploaded_xml.st # "unassigned"

\* A new session: the first run, with nothing uploaded and the radio on its
\* first option.
Init ==
    \E x \in XslStates :
        /\ xsl = x
        /\ \E r \in RunScript(FALSE, NoFile, XslOption, "none", x) : Shows(r)

\* The user picks a file in the empty uploader.
UploadFile ==
    /\ WidgetsRendered
    /\ uploaded_xml.st = "none"
    /\ \E doc \in Docs :
         \E r \in RunScript(fullscreen, File(doc), render_option, "none", xsl) :
            Becomes(r)

\* The user removes the uploaded file.
RemoveFile ==
    /\ WidgetsRendered
    /\ uploaded_xml.st = "file"
    /\ \E r \in RunScript(fullscreen, NoFile, render_option, "none", xsl) :
            Becomes(r)

\* The user selects the other rendering method.
SelectRenderOption ==
    /\ WidgetsRendered
    /\ \E opt \in {XslOption, ParseOption} \ {render_option} :
         \E r \in RunScript(fullscreen, uploaded_xml, opt, "none", xsl) :
            Becomes(r)

\* The user presses one of the buttons on the page.
PressButton ==
    /\ ~ rerun
    /\ \E b \in buttons :
         \E r \in RunScript(fullscreen,
                            IF uploaded_xml.st = "unassigned" THEN NoFile
                            ELSE uploaded_xml,
                            IF render_option = "unassigned" THEN XslOption
                            ELSE render_option,
                            b, xsl) :
            Becomes(r)

\* The script runs again with no widget changed: the run st.rerun() queued,
\* or a rerun the user asks for.  Widgets the last run did not render have
\* lost their state and return their defaults.
Rerun ==
    \E r \in RunScript(fullscreen,
                       IF uploaded_xml.st = "unassigned" THEN NoFile
                       ELSE uploaded_xml,
                       IF render_option = "unassigned" THEN XslOption
                       ELSE render_option,
                       "none", xsl) :
        Becomes(r)

Next == UploadFile \/ RemoveFile \/ SelectRenderOption \/ PressButton \/ Rerun

Spec == Init /\ [][Next]_vars

-----------------------------------------------------------------------------
(* Properties.                                                             *)

\* The last run took the 'Parse Events Directly' branch for an uploaded file.
ParseRan ==
    /\ uploaded_xml.st = "file"
    /\ render_option = ParseOption
    /\ ~ rerun
    /\ raised = "none"

\* The tag is exactly failedRequest or ends with }failedRequest.
IsFailedRequest(tag) ==
    \/ tag = FailedRequestChars
    \/ \E k \in 1..Len(tag) :
          /\ tag[k] = "}"
          /\ SubSeq(tag, k + 1, Len(tag)) = FailedRequestChars

\* C1: in the direct parsing branch a well-formed document is extracted if
\* and only if its root tag is failedRequest or ends with }failedRequest;
\* for any other root the invalid root is reported with exactly that tag and
\* no summary, event record, timeline or CSV is produced.
C1_RootValidation ==
    (ParseRan /\ uploaded_xml.doc.wellFormed) =>
        /\ extracted <=> IsFailedRequest(uploaded_xml.doc.root)
        /\ IsFailedRequest(uploaded_xml.doc.root) =>
              /\ "Invalid FRT XML" \notin reports
              /\ rootTagShown = NoneChars
        /\ ~ IsFailedRequest(uploaded_xml.doc.root) =>
              /\ "Invalid FRT XML" \in reports
              /\ rootTagShown = Chars(uploaded_xml.doc.root)
              /\ ~ summary.shown
              /\ events = << >>
              /\ df = << >>
              /\ ~ timelineShown
              /\ ~ csv

\* A document whose root, xfailedRequest, only resembles failedRequest and
\* which holds an event was rejected.
C1_Witness ==
    /\ ParseRan
    /\ uploaded_xml.doc.wellFormed
    /\ uploaded_xml.doc.root = <<"x">> \o FailedRequestChars
    /\ uploaded_xml.doc.elems # << >>
    /\ "Invalid FRT XML" \in reports
    /\ rootTagShown = Chars(<<"x">> \o FailedRequestChars)

\* C2: the root cause shown is File Not Found exactly for the raw statusCode
\* "404", Server Error exactly for "500", and Unknown for every other value,
\* a missing attribute included.
C2_RootCauseExact ==
    summary.shown =>
        /\ summary.root_cause = "File Not Found (Check physical path)"
              <=> uploaded_xml.doc.statusCode = Str("404")
        /\ summary.root_cause = "Server Error (Review modules/logs)"
              <=> uploaded_xml.doc.statusCode = Str("500")
        /\ uploaded_xml.doc.statusCode \notin {Str("404"), Str("500")}
              => summary.root_cause = "Unknown"
        /\ uploaded_xml.doc.statusCode = None => summary.status_code = "N/A"

\* A summary was shown for the status code 0404, numerically equal to 404.
C2_Witness ==
    /\ summary.shown
    /\ uploaded_xml.doc.statusCode = Str("0404")
    /\ summary.root_cause = "Unknown"

\* The time attribute of the element a row of the frame was made from.
SourceTime(row) == event_nodes[row.idx + 1].time

\* C3 as stated: every row of a produced timeline has a non-negative integer
\* time.
C3_TimeNonNegative ==
    \A k \in DOMAIN df : df[k].timeMs \in Nat

\* C3 amended: every row's time is an integer; it is position * 10 when the
\* attribute is absent, empty or not a number, the attribute's value
\* truncated toward zero otherwise, and so negative exactly when the
\* attribute is a number that is at most -1.
C3_TimeInteger ==
    \A k \in DOMAIN df :
        LET row == df[k]
            time == SourceTime(row)
            usable == ~ time.isNone /\ time.val # << >>
                      /\ PyFloat(time.val).kind = "finite"
        IN  /\ row.timeMs \in Int
            /\ ~ usable => row.timeMs = row.idx * 10
            /\ usable => row.timeMs = IF PyFloat(time.val).neg
                                     THEN 0 - PyFloat(time.val).trunc
                                     ELSE PyFloat(time.val).trunc
            /\ row.timeMs < 0 <=>
                  /\ usable
                  /\ PyFloat(time.val).neg
                  /\ PyFloat(time.val).trunc >= 1

\* A timeline was shown with a row of time -5 and a row for the time -0.5.
C3_Witness ==
    /\ timelineShown
    /\ \E k \in DOMAIN df : df[k].timeMs = -5
    /\ \E k \in DOMAIN df :
          SourceTime(df[k]) = Chars(<<"-", "0", ".", "5">>) /\ df[k].timeMs = 0

\* C4: an event whose time is unusable never aborts the extraction: whenever
\* an accepted document is extracted, every matched event is emitted, one
\* with an unusable time at position * 10, and the summary is produced.
C4_UnusableTimeNeverAborts ==
    extracted =>
        /\ "Error processing file" \notin reports
        /\ summary.shown
        /\ Len(events) = Len(event_nodes)
        /\ \A k \in DOMAIN events :
              LET time == event_nodes[k].time
              IN  (time.isNone \/ time.val = << >>
                   \/ PyFloat(time.val).kind # "finite")
                     => events[k].timeMs = (k - 1) * 10

\* C5: the timeline is the extracted events sorted ascending by time, a
\* permutation of them, and rows with equal times keep document order.
C5_StableSort ==
    (extracted /\ summary.shown) =>
        /\ Len(df) = Len(events)
        /\ \A k \in DOMAIN events : \E j \in DOMAIN df : df[j] = events[k]
        /\ \A a, b \in DOMAIN df :
              a < b => \/ df[a].timeMs < df[b].timeMs
                       \/ df[a].timeMs = df[b].timeMs /\ df[a].idx < df[b].idx

\* The first child of e named local, qualified or bare.
EitherChild(e, local) ==
    LET hits == {k \in DOMAIN e.children :
                    e.children[k].tag \in {QName(local), local}}
    IN  IF hits = {} THEN NotFound
        ELSE [found |-> TRUE,
              el |-> e.children[CHOOSE k \in hits : \A j \in hits : k <= j]]

\* The verb C6 describes.
VerbOfEitherForm(doc) ==
    LET hits == {k \in DOMAIN doc.elems :
                    /\ doc.elems[k].tag \in {QName("data"), "data"}
                    /\ EitherChild(doc.elems[k], "name").found
                    /\ EitherChild(doc.elems[k], "name").el.text = Str("VERB")}
        first == CHOOSE k \in hits : \A j \in hits : k <= j
    IN  IF hits = {} THEN Str("N/A")
        ELSE IF EitherChild(doc.elems[first], "value").found
        THEN EitherChild(doc.elems[first], "value").el.text
        ELSE Str("N/A")

\* C6: the verb shown is the value of the first data element, qualified or
\* bare, whose name child is VERB, and N/A only when there is none or it has
\* no value child.
C6_VerbBothForms ==
    summary.shown => summary.verb = VerbOfEitherForm(uploaded_xml.doc)

\* The text C7 describes: of the qualified child first, of the bare child
\* otherwise, of neither the default.
DualLookupText(e, local, default) ==
    IF Find(e, QName(local)).found THEN Find(e, QName(local)).el.text
    ELSE IF Find(e, local).found THEN Find(e, local).el.text
    ELSE Str(default)

\* C7: every event's name and provider come from the dual lookup of its name
\* and providerName children, Unknown and the empty string only with neither.
C7_DualLookup ==
    \A k \in DOMAIN events :
        /\ events[k].eventName = DualLookupText(event_nodes[k], "name", "Unknown")
        /\ events[k].provider = DualLookupText(event_nodes[k], "providerName", "")

\* The descendants of doc with that tag, in document order.
Descendants(doc, tag) ==
    LET at == {k \in DOMAIN doc.elems : doc.elems[k].tag = tag}
        RECURSIVE Upto(_)
        Upto(n) == IF n = 0 THEN << >>
                   ELSE IF n \in at THEN Append(Upto(n - 1), doc.elems[n])
                   ELSE Upto(n - 1)
    IN  Upto(Len(doc.elems))

\* C8: the matched events are the qualified event elements in document order
\* when there is one, the bare ones only when there is none, never both; the
\* rows are made from them in that order, with positions 0, 1, 2, ...; with
\* neither form the timeline is empty.
C8_QualifiedPrecedence ==
    extracted =>
        LET qualified == Descendants(uploaded_xml.doc, QName("event"))
            bare == Descendants(uploaded_xml.doc, "event")
        IN  /\ qualified # << >> => event_nodes = qualified
            /\ qualified = << >> => event_nodes = bare
            /\ Len(events) <= Len(event_nodes)
            /\ "Error processing file" \notin reports
                  => Len(events) = Len(event_nodes)
            /\ \A k \in DOMAIN events :
                  /\ events[k].idx = k - 1
                  /\ events[k].reason = Get(event_nodes[k].reason, "")
            /\ (qualified = << >> /\ bare = << >>) =>
                  events = << >> /\ df = << >> /\ ~ timelineShown

\* A document with both a qualified and a bare event was extracted and only
\* its qualified events became rows.
C8_Witness ==
    /\ extracted
    /\ summary.shown
    /\ \E k \in DOMAIN uploaded_xml.doc.elems :
          uploaded_xml.doc.elems[k].tag = "event"
    /\ \E k \in DOMAIN uploaded_xml.doc.elems :
          uploaded_xml.doc.elems[k].tag = QName("event")
    /\ Len(df) = Len(Descendants(uploaded_xml.doc, QName("event")))
    /\ Len(df) < Len(uploaded_xml.doc.elems)

\* C9: no run of the script ends in an uncaught exception.
C9_NoUncaughtException == raised = "none"

\* C10: whenever the session is in full-screen mode and the script is idle,
\* the page offers the Exit Full-Screen Mode button.
C10_ExitOffered == (fullscreen /\ ~ rerun) => "exit" \in buttons

====
